---------------------------- MODULE Spec2Model ----------------------------
(***************************************************************************)
(* A model of the Huffman compressor of src/untitled.py: the bit codec,    *)
(* the frequency table, the tree builder, the code table, the node         *)
(* numbering, the tree serialisation and its two readers, and the          *)
(* compress / uncompress entry points.                                     *)
(*                                                                         *)
(* Python values are modelled as follows.                                  *)
(*   bytes, list      a sequence of integers                               *)
(*   str of bits      a sequence of the one-character strings "0" and "1"  *)
(*   dict             a function whose domain is the set of keys; the      *)
(*                    frequency table, which is iterated, is the list of   *)
(*                    its (key, value) items in insertion order            *)
(*   HuffmanNode      a record [symbol, left, right, number]               *)
(*   ReadNode         a record [l_type, l_data, r_type, r_data]            *)
(*   None             None (symbol, number) and NoNode (left, right)       *)
(*   a raised error   a record [raised |-> <the exception's name>]         *)
(***************************************************************************)
EXTENDS Integers, Sequences, FiniteSets, TLC

\* Symbols of input texts and frequency tables are 0 .. MaxSymbol.
MaxSymbol == 3
\* Input texts hold at most MaxLen bytes.
MaxLen == 5
\* Frequencies of drawn frequency tables are 1 .. MaxFreq.
MaxFreq == 3
\* Leaves of drawn trees carry the symbols 0 .. MaxLeafSymbol.
MaxLeafSymbol == 1
\* Drawn two-children trees have at most MaxLeaves leaves.
MaxLeaves == 4
\* Drawn trees of any shape have at most MaxNodes nodes.
MaxNodes == 5
\* Drawn code trees have at most MaxCodeLeaves leaves.
MaxCodeLeaves == 3

\* Python's None in an integer field (symbol, number).
None == -1
\* Python's None in a node field (left, right).
NoNode == [none |-> TRUE]

\* The bits of a byte, and the values of a byte.
BitsPerByte == 8
ByteRange == 256

Symbols == 0 .. MaxSymbol
LeafSymbols == 0 .. MaxLeafSymbol

Range(s) == {s[i] : i \in DOMAIN s}

\* A raised exception, and a normal return.
Raise(kind) == [raised |-> kind]
Return(v) == [value |-> v]
IsRaised(r) == "raised" \in DOMAIN r

RECURSIVE Pow2(_)
Pow2(n) == IF n = 0 THEN 1 ELSE 2 * Pow2(n - 1)

RECURSIVE SumSeq(_)
SumSeq(s) == IF s = <<>> THEN 0 ELSE Head(s) + SumSeq(Tail(s))

\* str(i) and int(c) on one binary digit.
StrOfBit(i) == IF i = 0 THEN "0" ELSE "1"
IntOfBit(c) == IF c = "0" THEN 0 ELSE 1

-----------------------------------------------------------------------------
(* Helper functions for manipulating bytes *)

\* (byte & (1 << bit_num)) >> bit_num
get_bit(byte, bit_num) == (byte \div Pow2(bit_num)) % 2

\* A mutant of byte_to_bits: the bits are listed from the right.
byte_to_bits_lsb_first(byte) ==
    [k \in 1 .. BitsPerByte |-> StrOfBit(get_bit(byte, k - 1))]

\* bit_num runs over range(7, -1, -1)
byte_to_bits(byte) ==
    [k \in 1 .. BitsPerByte |-> StrOfBit(get_bit(byte, BitsPerByte - k))]

\* sum of int(bits[pos]) << (7 - pos) for pos in range(len(bits))
bits_to_byte(bits) ==
    SumSeq([k \in 1 .. Len(bits) |->
               IntOfBit(bits[k]) * Pow2(BitsPerByte - k)])

-----------------------------------------------------------------------------
(* Nodes *)

\* HuffmanNode(symbol, left, right); number is unset until number_nodes runs.
HuffmanNode(symbol, left, right) ==
    [symbol |-> symbol, left |-> left, right |-> right, number |-> None]

\* HuffmanNode(symbol): a leaf.
Leaf(symbol) == HuffmanNode(symbol, NoNode, NoNode)

ReadNode(l_type, l_data, r_type, r_data) ==
    [l_type |-> l_type, l_data |-> l_data, r_type |-> r_type, r_data |-> r_data]

\* d[k] = v on a dict.
DictPut(d, k, v) == [x \in DOMAIN d \cup {k} |-> IF x = k THEN v ELSE d[x]]

EmptyDict == [x \in {} |-> 0]

-----------------------------------------------------------------------------
(* Functions for compression *)

\* The keys of an items list, as a list and as a set, and the value of a key.
ItemKeys(items) == [i \in DOMAIN items |-> items[i][1]]
KeySet(items) == {items[i][1] : i \in DOMAIN items}
ItemValue(items, k) == items[CHOOSE i \in DOMAIN items : items[i][1] = k][2]

\* The loop of make_freq_dict: res after the bytes of text.
RECURSIVE CountInto(_, _)
CountInto(res, text) ==
    IF text = <<>> THEN res
    ELSE LET b == Head(text)
         IN  CountInto(IF b \in KeySet(res)
                       THEN [i \in DOMAIN res |->
                                IF res[i][1] = b THEN <<b, res[i][2] + 1>>
                                                 ELSE res[i]]
                       ELSE Append(res, <<b, 1>>),
                       Tail(text))

make_freq_dict(text) == CountInto(<<>>, text)

\* Whether node n1 orders before node n2: no node does.
NodeLess(n1, n2) == FALSE

\* (p1, n1) < (p2, n2) on the tuples of q: by the first items that differ.
EntryLess(e1, e2) ==
    \/ e1[1] < e2[1]
    \/ e1[1] = e2[1] /\ e1[2] # e2[2] /\ NodeLess(e1[2], e2[2])

\* The sorted list after e is put into it: before the first item that e is
\* less than, so after the items it ties with.
RECURSIVE InsertSorted(_, _)
InsertSorted(lst, e) ==
    IF lst = <<>> THEN <<e>>
    ELSE IF EntryLess(e, Head(lst)) THEN <<e>> \o lst
    ELSE <<Head(lst)>> \o InsertSorted(Tail(lst), e)

\* sorted(q): a stable sort.
RECURSIVE sorted(_)
sorted(q) ==
    IF q = <<>> THEN <<>>
    ELSE InsertSorted(sorted(SubSeq(q, 1, Len(q) - 1)), q[Len(q)])

\* A mutant of huffman_merge: the second entry is popped from the end of
\* the list (q.pop() for q.pop(0)).
RECURSIVE huffman_merge_pop_last(_)
huffman_merge_pop_last(q) ==
    IF Len(q) <= 1 THEN q
    ELSE LET e1 == q[1]
             e2 == q[Len(q)]
             current_node == HuffmanNode(None, e1[2], e2[2])
             rest == SubSeq(q, 2, Len(q) - 1)
         IN  huffman_merge_pop_last(
                 sorted(rest \o <<<<e1[1] + e2[1], current_node>>>>))

\* The while loop of huffman_tree: the list q when it ends.
RECURSIVE huffman_merge(_)
huffman_merge(q) ==
    IF Len(q) <= 1 THEN q
    ELSE LET e1 == q[1]
             e2 == q[2]
             current_node == HuffmanNode(None, e1[2], e2[2])
             rest == SubSeq(q, 3, Len(q))
         IN  huffman_merge(sorted(rest \o <<<<e1[1] + e2[1], current_node>>>>))

\* huffman_tree(freq_dict): the root returned, or the IndexError of q[0] on
\* an empty list.
huffman_tree(freq_dict) ==
    LET q == sorted([i \in DOMAIN freq_dict |->
                        <<freq_dict[i][2], Leaf(freq_dict[i][1])>>])
    IN  IF Len(q) = 1
        THEN Return(HuffmanNode(None, Leaf(q[1][2].symbol), NoNode))
        ELSE LET qn == huffman_merge(q)
             IN  IF Len(qn) = 0 THEN Raise("IndexError")
                 ELSE Return(qn[1][2])

\* An int item of freq_to_item in src/untitled2.py: a symbol not yet made a
\* node (isinstance(item, int)).
IntItem(symbol) == [int |-> symbol]
IsInt(item) == "int" \in DOMAIN item

\* Whether item i1 orders before item i2: two ints by their values; a node
\* orders before nothing and nothing before a node.
ItemLess(i1, i2) ==
    IF IsInt(i1) /\ IsInt(i2) THEN i1.int < i2.int ELSE NodeLess(i1, i2)

\* (f1, i1) < (f2, i2) on the tuples of freq_to_item.
EntryLess2(e1, e2) ==
    \/ e1[1] < e2[1]
    \/ e1[1] = e2[1] /\ e1[2] # e2[2] /\ ItemLess(e1[2], e2[2])

RECURSIVE InsertSorted2(_, _)
InsertSorted2(lst, e) ==
    IF lst = <<>> THEN <<e>>
    ELSE IF EntryLess2(e, Head(lst)) THEN <<e>> \o lst
    ELSE <<Head(lst)>> \o InsertSorted2(Tail(lst), e)

\* freq_to_item.sort(): a stable sort.
RECURSIVE sort(_)
sort(lst) ==
    IF lst = <<>> THEN <<>>
    ELSE InsertSorted2(sort(SubSeq(lst, 1, Len(lst) - 1)), lst[Len(lst)])

\* HuffmanNode(item) for an int item, the item itself for a node.
NodeOfItem(item) == IF IsInt(item) THEN Leaf(item.int) ELSE item

\* The while loop of huffman_tree in src/untitled2.py: freq_to_item when it
\* ends.
RECURSIVE huffman_merge2(_)
huffman_merge2(freq_to_item) ==
    IF Len(freq_to_item) <= 1 THEN freq_to_item
    ELSE LET q == sort(freq_to_item)
             item_0 == q[1]
             item_1 == q[2]
             new_huff == HuffmanNode(None, NodeOfItem(item_0[2]),
                                     NodeOfItem(item_1[2]))
         IN  huffman_merge2(SubSeq(q, 3, Len(q)) \o
                            <<<<item_0[1] + item_1[1], new_huff>>>>)

\* huffman_tree(freq_dict) of src/untitled2.py: a lone symbol gives a tree
\* that is one leaf; an empty table gives the IndexError of freq_to_item[0].
huffman_tree2(freq_dict) ==
    LET freq_to_item == [i \in DOMAIN freq_dict |->
                            <<freq_dict[i][2], IntItem(freq_dict[i][1])>>]
    IN  IF Len(freq_to_item) = 1
        THEN Return(HuffmanNode(freq_to_item[1][2].int, NoNode, NoNode))
        ELSE LET qn == huffman_merge2(freq_to_item)
             IN  IF Len(qn) = 0 THEN Raise("IndexError")
                 ELSE Return(qn[1][2])

\* A mutant of get_codes_rec: the right subtree's codes also grow by "0".
RECURSIVE get_codes_rec_same_bit(_, _, _)
get_codes_rec_same_bit(tree, code, d) ==
    IF tree = NoNode THEN d
    ELSE IF tree.symbol # None THEN DictPut(d, tree.symbol, code)
    ELSE get_codes_rec_same_bit(tree.right, code \o <<"0">>,
             get_codes_rec_same_bit(tree.left, code \o <<"0">>, d))

\* The dict d after get_codes_rec(tree, code, d).
RECURSIVE get_codes_rec(_, _, _)
get_codes_rec(tree, code, d) ==
    IF tree = NoNode THEN d
    ELSE IF tree.symbol # None THEN DictPut(d, tree.symbol, code)
    ELSE get_codes_rec(tree.right, code \o <<"1">>,
             get_codes_rec(tree.left, code \o <<"0">>, d))

get_codes(tree) == get_codes_rec(tree, <<>>, EmptyDict)

\* The dict code after the inner function get_code(node, default_code) of
\* get_codes in src/untitled2.py.
RECURSIVE get_code(_, _, _)
get_code(node, default_code, code) ==
    IF node = NoNode THEN code
    ELSE IF node.left = NoNode /\ node.right = NoNode
         THEN DictPut(code, node.symbol, default_code)
    ELSE get_code(node.right, default_code \o <<"1">>,
                  get_code(node.left, default_code \o <<"0">>, code))

\* get_codes(tree) of src/untitled2.py: a root that is a leaf gets "1".
get_codes2(tree) ==
    IF tree.symbol # None /\ tree.right = NoNode /\ tree.left = NoNode
    THEN DictPut(EmptyDict, tree.symbol, <<"1">>)
    ELSE get_code(tree, <<>>, EmptyDict)

\* A mutant of number_nodes_rec: the node is numbered before its subtrees.
RECURSIVE number_nodes_rec_preorder(_, _)
number_nodes_rec_preorder(tree, num) ==
    IF tree = NoNode THEN [tree |-> tree, num |-> num]
    ELSE LET own == IF tree.symbol = None THEN num + 1 ELSE num
             l == number_nodes_rec_preorder(tree.left, own)
             r == number_nodes_rec_preorder(tree.right, l.num)
         IN  IF tree.symbol = None
             THEN [tree |-> [tree EXCEPT !.left = l.tree, !.right = r.tree,
                                         !.number = num],
                   num |-> r.num]
             ELSE [tree |-> [tree EXCEPT !.left = l.tree, !.right = r.tree],
                   num |-> r.num]

\* number_nodes_rec(tree, num): the subtree as it is left, and the number
\* returned.
RECURSIVE number_nodes_rec(_, _)
number_nodes_rec(tree, num) ==
    IF tree = NoNode THEN [tree |-> tree, num |-> num]
    ELSE LET l == number_nodes_rec(tree.left, num)
             r == number_nodes_rec(tree.right, l.num)
         IN  IF tree.symbol = None
             THEN [tree |-> [tree EXCEPT !.left = l.tree, !.right = r.tree,
                                         !.number = r.num],
                   num |-> r.num + 1]
             ELSE [tree |-> [tree EXCEPT !.left = l.tree, !.right = r.tree],
                   num |-> r.num]

\* The tree after number_nodes(tree).
number_nodes(tree) == number_nodes_rec(tree, 0).tree

\* node.is_leaf(): the node has no children.
is_leaf(node) == node.left = NoNode /\ node.right = NoNode

\* The inner function postorder of number_nodes in src/untitled2.py, with
\* the loop that numbers the nodes of data by their index: the subtree as it
\* is left, and len(data).
RECURSIVE postorder(_, _)
postorder(node, num) ==
    IF node = NoNode THEN [tree |-> node, num |-> num]
    ELSE IF is_leaf(node) THEN [tree |-> node, num |-> num]
    ELSE LET l == postorder(node.left, num)
             r == postorder(node.right, l.num)
         IN  [tree |-> [node EXCEPT !.left = l.tree, !.right = r.tree,
                                    !.number = r.num],
              num |-> r.num + 1]

\* The tree after number_nodes(tree) of src/untitled2.py.
number_nodes2(tree) == postorder(tree, 0).tree

\* avg_length(tree, freq_dict) as the fraction avg / total_freq; codes[k]
\* raises KeyError for a key the tree does not code, the division raises
\* ZeroDivisionError for an empty table.
avg_length(tree, freq_dict) ==
    LET codes == get_codes(tree)
    IN  IF \E k \in KeySet(freq_dict) : k \notin DOMAIN codes
        THEN Raise("KeyError")
        ELSE IF freq_dict = <<>> THEN Raise("ZeroDivisionError")
        ELSE Return([avg |-> SumSeq([i \in DOMAIN freq_dict |->
                                Len(codes[freq_dict[i][1]]) * freq_dict[i][2]]),
                     total_freq |-> SumSeq([i \in DOMAIN freq_dict |->
                                               freq_dict[i][2]])])

\* bytes(lst): every item must be in range(256).
bytes(lst) ==
    IF \A i \in DOMAIN lst : lst[i] >= 0 /\ lst[i] < ByteRange
    THEN Return(lst) ELSE Raise("ValueError")

\* The concatenation of codes[byte] for the bytes of text, in order.
RECURSIVE CodeBits(_, _)
CodeBits(text, codes) ==
    IF text = <<>> THEN <<>>
    ELSE codes[Head(text)] \o CodeBits(Tail(text), codes)

\* bstring += "0" while len(bstring) % 8 != 0
PadBits(bstring) ==
    bstring \o [k \in 1 .. ((BitsPerByte - (Len(bstring) % BitsPerByte))
                                % BitsPerByte) |-> "0"]

\* generate_compressed(text, codes): the packed bytes, or the KeyError of
\* codes[byte].
generate_compressed(text, codes) ==
    IF \E i \in DOMAIN text : text[i] \notin DOMAIN codes
    THEN Raise("KeyError")
    ELSE LET bstring == PadBits(CodeBits(text, codes))
         IN  Return([k \in 1 .. (Len(bstring) \div BitsPerByte) |->
                        bits_to_byte(SubSeq(bstring,
                            BitsPerByte * (k - 1) + 1, BitsPerByte * k))])

\* The two items tree_to_bytes_rec appends for one child.
ChildItems(child) ==
    IF child.symbol = None THEN <<1, child.number>> ELSE <<0, child.symbol>>

\* The list res after tree_to_bytes_rec(tree, res), or the AttributeError of
\* tree.left.symbol / tree.right.symbol on a child that is None.
RECURSIVE tree_to_bytes_rec(_, _)
tree_to_bytes_rec(tree, res) ==
    IF tree = NoNode \/ tree.symbol # None THEN Return(res)
    ELSE LET l == tree_to_bytes_rec(tree.left, res)
         IN  IF IsRaised(l) THEN l
             ELSE LET r == tree_to_bytes_rec(tree.right, l.value)
                  IN  IF IsRaised(r) THEN r
                      ELSE IF tree.left = NoNode \/ tree.right = NoNode
                           THEN Raise("AttributeError")
                      ELSE Return(r.value \o ChildItems(tree.left)
                                          \o ChildItems(tree.right))

tree_to_bytes(tree) ==
    LET res == tree_to_bytes_rec(tree, <<>>)
    IN  IF IsRaised(res) THEN res ELSE bytes(res.value)

\* bytes([tree.number + 1])
num_nodes_to_bytes(tree) == bytes(<<tree.number + 1>>)

\* A mutant of size_to_bytes: the bytes are written big-endian.
size_to_bytes_big_endian(size) ==
    IF size \div Pow2(3 * BitsPerByte) >= ByteRange THEN Raise("OverflowError")
    ELSE Return([k \in 1 .. 4 |->
                    (size \div Pow2(BitsPerByte * (4 - k))) % ByteRange])

\* size.to_bytes(4, "little"): OverflowError when size needs a fifth byte.
size_to_bytes(size) ==
    IF size \div Pow2(3 * BitsPerByte) >= ByteRange THEN Raise("OverflowError")
    ELSE Return([k \in 1 .. 4 |->
                    (size \div Pow2(BitsPerByte * (k - 1))) % ByteRange])

\* The first raised result of a list of results, or the concatenation of
\* their values.
RECURSIVE Concat(_)
Concat(parts) ==
    IF parts = <<>> THEN Return(<<>>)
    ELSE IF IsRaised(Head(parts)) THEN Head(parts)
    ELSE LET rest == Concat(Tail(parts))
         IN  IF IsRaised(rest) THEN rest
             ELSE Return(Head(parts).value \o rest.value)

\* compress on the contents text of in_file: the locals and the bytes
\* written to out_file, or the exception that ends the call before out_file
\* is opened.
compress(text) ==
    LET freq == make_freq_dict(text)
        built == huffman_tree(freq)
    IN  IF IsRaised(built) THEN built
        ELSE LET codes == get_codes(built.value)
                 tree == number_nodes(built.value)
                 avg == avg_length(tree, freq)
             IN  IF IsRaised(avg) THEN avg
                 ELSE LET result == Concat(<<num_nodes_to_bytes(tree),
                                             tree_to_bytes(tree),
                                             size_to_bytes(Len(text)),
                                             generate_compressed(text, codes)>>)
                      IN  IF IsRaised(result) THEN result
                          ELSE Return([freq |-> freq, tree |-> tree,
                                       codes |-> codes, result |-> result.value])

-----------------------------------------------------------------------------
(* Functions for decompression *)

\* lst[i] on a Python list: a negative i counts from the end.
InRange(lst, i) == i < Len(lst) /\ i >= -Len(lst)
Item(lst, i) == IF i >= 0 THEN lst[i + 1] ELSE lst[Len(lst) + i + 1]

\* generate_tree_general at recursion depth `depth`. A chain of references
\* longer than the list revisits a record and never ends: RecursionError.
RECURSIVE generate_tree_general_rec(_, _, _)
generate_tree_general_rec(node_lst, root_index, depth) ==
    IF depth > Len(node_lst) THEN Raise("RecursionError")
    ELSE IF ~InRange(node_lst, root_index) THEN Raise("IndexError")
    ELSE LET read_node == Item(node_lst, root_index)
             left == IF read_node.l_type = 1
                     THEN generate_tree_general_rec(node_lst, read_node.l_data,
                                                    depth + 1)
                     ELSE Return(Leaf(read_node.l_data))
         IN  IF IsRaised(left) THEN left
             ELSE LET right == IF read_node.r_type = 1
                               THEN generate_tree_general_rec(node_lst,
                                        read_node.r_data, depth + 1)
                               ELSE Return(Leaf(read_node.r_data))
                  IN  IF IsRaised(right) THEN right
                      ELSE Return(HuffmanNode(None, left.value, right.value))

generate_tree_general(node_lst, root_index) ==
    generate_tree_general_rec(node_lst, root_index, 0)

\* A mutant of generate_tree_postorder_rec: the left subtree is read before
\* the right one.
RECURSIVE generate_tree_postorder_rec_left_first(_, _, _)
generate_tree_postorder_rec_left_first(node_lst, root_index, depth) ==
    IF depth > Len(node_lst) THEN Raise("RecursionError")
    ELSE IF ~InRange(node_lst, root_index) THEN Raise("IndexError")
    ELSE LET read_node == Item(node_lst, root_index)
             left == IF read_node.l_type = 1
                     THEN generate_tree_postorder_rec_left_first(node_lst,
                              root_index - 1, depth + 1)
                     ELSE Return([ind |-> root_index,
                                  tree |-> Leaf(read_node.l_data)])
         IN  IF IsRaised(left) THEN left
             ELSE LET right == IF read_node.r_type = 1
                               THEN generate_tree_postorder_rec_left_first(
                                        node_lst, left.value.ind - 1, depth + 1)
                               ELSE Return([ind |-> left.value.ind,
                                            tree |-> Leaf(read_node.r_data)])
                  IN  IF IsRaised(right) THEN right
                      ELSE Return([ind |-> right.value.ind,
                                   tree |-> HuffmanNode(None, left.value.tree,
                                                        right.value.tree)])

\* generate_tree_postorder_rec at recursion depth `depth`: the pair
\* (ind, tree), ind the smallest index read.
RECURSIVE generate_tree_postorder_rec(_, _, _)
generate_tree_postorder_rec(node_lst, root_index, depth) ==
    IF depth > Len(node_lst) THEN Raise("RecursionError")
    ELSE IF ~InRange(node_lst, root_index) THEN Raise("IndexError")
    ELSE LET read_node == Item(node_lst, root_index)
             right == IF read_node.r_type = 1
                      THEN generate_tree_postorder_rec(node_lst, root_index - 1,
                                                       depth + 1)
                      ELSE Return([ind |-> root_index,
                                   tree |-> Leaf(read_node.r_data)])
         IN  IF IsRaised(right) THEN right
             ELSE LET left == IF read_node.l_type = 1
                              THEN generate_tree_postorder_rec(node_lst,
                                       right.value.ind - 1, depth + 1)
                              ELSE Return([ind |-> right.value.ind,
                                           tree |-> Leaf(read_node.l_data)])
                  IN  IF IsRaised(left) THEN left
                      ELSE Return([ind |-> left.value.ind,
                                   tree |-> HuffmanNode(None, left.value.tree,
                                                        right.value.tree)])

generate_tree_postorder(node_lst, root_index) ==
    LET r == generate_tree_postorder_rec(node_lst, root_index, 0)
    IN  IF IsRaised(r) THEN r ELSE Return(r.value.tree)

\* The concatenation of byte_to_bits(byte) for the bytes of text.
RECURSIVE AllBits(_)
AllBits(text) ==
    IF text = <<>> THEN <<>>
    ELSE byte_to_bits(Head(text)) \o AllBits(Tail(text))

\* A mutant of DecodeFrom: the loop does not stop at size symbols.
RECURSIVE DecodeFrom_no_size_check(_, _, _, _, _, _)
DecodeFrom_no_size_check(tree, bstring, i, cur, binary_list, size) ==
    IF i > Len(bstring) THEN bytes(binary_list)
    ELSE LET next == IF bstring[i] = "0" THEN cur.left ELSE cur.right
         IN  IF next = NoNode THEN Raise("AttributeError")
             ELSE IF next.symbol # None
                  THEN DecodeFrom_no_size_check(tree, bstring, i + 1, tree,
                           Append(binary_list, next.symbol), size)
                  ELSE DecodeFrom_no_size_check(tree, bstring, i + 1, next,
                           binary_list, size)

\* The loop of generate_uncompressed from bit i on, at node cur, with
\* binary_list decoded so far (bytes_decoded is its length).
RECURSIVE DecodeFrom(_, _, _, _, _, _)
DecodeFrom(tree, bstring, i, cur, binary_list, size) ==
    IF i > Len(bstring) \/ Len(binary_list) = size THEN bytes(binary_list)
    ELSE LET next == IF bstring[i] = "0" THEN cur.left ELSE cur.right
         IN  IF next = NoNode THEN Raise("AttributeError")
             ELSE IF next.symbol # None
                  THEN DecodeFrom(tree, bstring, i + 1, tree,
                                  Append(binary_list, next.symbol), size)
                  ELSE DecodeFrom(tree, bstring, i + 1, next, binary_list, size)

generate_uncompressed(tree, text, size) ==
    DecodeFrom(tree, AllBits(text), 1, tree, <<>>, size)

\* bytes_to_nodes(buf): buf[i + 1] .. buf[i + 3] raise IndexError when the
\* last group of buf is short of 4 bytes.
bytes_to_nodes(buf) ==
    IF Len(buf) % 4 # 0 THEN Raise("IndexError")
    ELSE Return([k \in 1 .. (Len(buf) \div 4) |->
                    ReadNode(buf[4 * k - 3], buf[4 * k - 2],
                             buf[4 * k - 1], buf[4 * k])])

\* int.from_bytes(buf, "little"), on a buffer of any length.
bytes_to_size(buf) ==
    SumSeq([k \in DOMAIN buf |-> buf[k] * Pow2(BitsPerByte * (k - 1))])

\* f.read(n) from position pos (1-based) of data: at most n bytes.
FileRead(data, pos, n) ==
    SubSeq(data, pos, IF pos + n - 1 < Len(data) THEN pos + n - 1 ELSE Len(data))

\* uncompress on the contents data of in_file: the bytes written to out_file,
\* or the exception raised; opened tells whether out_file was opened (and so
\* created empty) before the exception.
uncompress(data) ==
    IF Len(data) = 0 THEN [raised |-> "IndexError", opened |-> FALSE]
    ELSE LET num_nodes == data[1]
             buf == FileRead(data, 2, num_nodes * 4)
             node_lst == bytes_to_nodes(buf)
         IN  IF IsRaised(node_lst)
             THEN [raised |-> node_lst.raised, opened |-> FALSE]
             ELSE LET tree == generate_tree_general(node_lst.value,
                                                    num_nodes - 1)
                  IN  IF IsRaised(tree)
                      THEN [raised |-> tree.raised, opened |-> FALSE]
                      ELSE LET size == bytes_to_size(
                                   FileRead(data, 2 + Len(buf), 4))
                               text == FileRead(data, 6 + Len(buf), Len(data))
                               out == generate_uncompressed(tree.value, text,
                                                            size)
                           IN  IF IsRaised(out)
                               THEN [raised |-> out.raised, opened |-> TRUE]
                               ELSE out

-----------------------------------------------------------------------------
(* Other functions *)

\* The list after item e is put into a list sorted by decreasing value:
\* after the items whose value is at least e's.
RECURSIVE InsertByValue(_, _)
InsertByValue(lst, e) ==
    IF lst = <<>> THEN <<e>>
    ELSE IF Head(lst)[2] < e[2] THEN <<e>> \o lst
    ELSE <<Head(lst)>> \o InsertByValue(Tail(lst), e)

\* sorted(list(freq_dict.items()), key=lambda x: x[1], reverse=True): items
\* of equal value keep their order.
RECURSIVE priorities(_)
priorities(items) ==
    IF items = <<>> THEN <<>>
    ELSE InsertByValue(priorities(SubSeq(items, 1, Len(items) - 1)),
                       items[Len(items)])

\* The node a path of "left" / "right" steps leads to from the root.
RECURSIVE NodeAt(_, _)
NodeAt(tree, path) ==
    IF path = <<>> THEN tree
    ELSE NodeAt(IF Head(path) = "left" THEN tree.left ELSE tree.right,
                Tail(path))

\* The tree after node.symbol = symbol on the node a path leads to.
RECURSIVE SetSymbolAt(_, _, _)
SetSymbolAt(tree, path, symbol) ==
    IF path = <<>> THEN [tree EXCEPT !.symbol = symbol]
    ELSE IF Head(path) = "left"
         THEN [tree EXCEPT !.left = SetSymbolAt(tree.left, Tail(path), symbol)]
         ELSE [tree EXCEPT
                  !.right = SetSymbolAt(tree.right, Tail(path), symbol)]

\* One of the two if statements of the loop of improve_tree, on the child
\* `side` of the node at path cur: the tree, the queue and p_index after it,
\* or the IndexError of priorities[p_index].
VisitChild(st, cur, side, prio) ==
    LET child == IF side = "left" THEN NodeAt(st.tree, cur).left
                                  ELSE NodeAt(st.tree, cur).right
    IN  IF child = NoNode THEN Return(st)
        ELSE IF child.symbol # None
             THEN IF st.p_index >= Len(prio) THEN Raise("IndexError")
                  ELSE Return([tree |-> SetSymbolAt(st.tree,
                                            Append(cur, side),
                                            prio[st.p_index + 1][1]),
                               q |-> st.q,
                               p_index |-> st.p_index + 1])
        ELSE Return([tree |-> st.tree,
                     q |-> Append(st.q, Append(cur, side)),
                     p_index |-> st.p_index])

\* The while loop of improve_tree; q holds the paths of the nodes queued.
RECURSIVE ImproveLoop(_, _)
ImproveLoop(st, prio) ==
    IF Len(st.q) = 0 THEN Return(st.tree)
    ELSE LET cur == Head(st.q)
             popped == [st EXCEPT !.q = Tail(st.q)]
             l == VisitChild(popped, cur, "left", prio)
         IN  IF IsRaised(l) THEN l
             ELSE LET r == VisitChild(l.value, cur, "right", prio)
                  IN  IF IsRaised(r) THEN r
                      ELSE ImproveLoop(r.value, prio)

\* The tree after improve_tree(tree, freq_dict), or the exception raised.
improve_tree(tree, freq_dict) ==
    ImproveLoop([tree |-> tree, q |-> <<<<>>>>, p_index |-> 0],
                priorities(freq_dict))

-----------------------------------------------------------------------------
(* Inputs *)

\* The byte sequences of at most n bytes over Symbols.
RECURSIVE TextsUpTo(_)
TextsUpTo(n) ==
    IF n = 0 THEN {<<>>}
    ELSE LET shorter == TextsUpTo(n - 1)
         IN  shorter \cup {Append(t, b) : t \in shorter, b \in Symbols}

Texts == TextsUpTo(MaxLen)

\* The items of a table with the keys `keys`, in increasing key order.
RECURSIVE ItemsOf(_, _)
ItemsOf(keys, f) ==
    IF keys = {} THEN <<>>
    ELSE LET k == CHOOSE x \in keys : \A y \in keys : x <= y
         IN  <<<<k, f[k]>>>> \o ItemsOf(keys \ {k}, f)

\* The frequency tables: some symbols, each with a count in 1 .. MaxFreq.
\* Counts are given to the keys in every way, so the keys of a tie are met
\* in every order of their weights.
FreqDicts ==
    UNION {{ItemsOf(keys, f) : f \in [keys -> 1 .. MaxFreq]} :
              keys \in (SUBSET Symbols) \ {{}}}

\* The trees of n leaves in which every internal node has two children.
RECURSIVE FullTreesOf(_)
FullTreesOf(n) ==
    IF n = 1 THEN {Leaf(s) : s \in LeafSymbols}
    ELSE UNION {{HuffmanNode(None, l, r) :
                    l \in FullTreesOf(k), r \in FullTreesOf(n - k)} :
                  k \in 1 .. (n - 1)}

FullTrees == UNION {FullTreesOf(n) : n \in 1 .. MaxLeaves}

\* The trees of n nodes of any shape: an internal node may lack one of its
\* children (n = 0 is the missing child); a node without children is a leaf
\* and carries a symbol.
RECURSIVE AnyTreesOf(_)
AnyTreesOf(n) ==
    IF n = 0 THEN {NoNode}
    ELSE IF n = 1 THEN {Leaf(s) : s \in LeafSymbols}
    ELSE UNION {{HuffmanNode(None, l, r) :
                    l \in AnyTreesOf(k), r \in AnyTreesOf(n - 1 - k)} :
                  k \in 0 .. (n - 1)}

AnyTrees == UNION {AnyTreesOf(n) : n \in 1 .. MaxNodes}

\* The two-children trees of n leaves that carry the symbols first,
\* first + 1, ... from left to right: one tree for each shape.
RECURSIVE CodeTreesOf(_, _)
CodeTreesOf(n, first) ==
    IF n = 1 THEN {Leaf(first)}
    ELSE UNION {{HuffmanNode(None, l, r) :
                    l \in CodeTreesOf(k, first),
                    r \in CodeTreesOf(n - k, first + k)} :
                  k \in 1 .. (n - 1)}

\* The code trees: at least two leaves, with distinct symbols.
CodeTrees == UNION {CodeTreesOf(n, 0) : n \in 2 .. MaxCodeLeaves}

-----------------------------------------------------------------------------
(* State *)

VARIABLES
    op,         \* the call made last
    raised,     \* the exception that call raised, or "none"
    in_file,    \* the file compress reads
    huf_file,   \* the file compress writes and uncompress reads
    orig_file,  \* the file uncompress writes
    truncated,  \* whether huf_file lost bytes after compress wrote it
    freq_dict,  \* the frequency table of the last call
    tree,       \* the tree of the last call
    before,     \* the tree as it was given to improve_tree
    codes,      \* the code table of the last call
    node_lst,   \* the ReadNode list of the last call
    rebuilt,    \* the trees the two readers returned
    text,       \* the text given to generate_compressed
    payload,    \* the bytes generate_compressed returned
    decoded,    \* the result of generate_uncompressed
    bits,       \* a string of bits
    byte,       \* a byte
    echo        \* the bits, or the byte, converted there and back

vars == <<op, raised, in_file, huf_file, orig_file, truncated, freq_dict, tree,
          before, codes, node_lst, rebuilt, text, payload, decoded, bits, byte,
          echo>>

files == <<in_file, huf_file, orig_file, truncated>>
tables == <<freq_dict, tree, codes>>
readers == <<node_lst, rebuilt>>
coding == <<text, payload, decoded>>
codec == <<bits, byte, echo>>

NoFile == [exists |-> FALSE, data |-> <<>>]
File(data) == [exists |-> TRUE, data |-> data]

Init ==
    /\ op = "init"
    /\ raised = "none"
    /\ in_file = NoFile
    /\ huf_file = NoFile
    /\ orig_file = NoFile
    /\ truncated = FALSE
    /\ freq_dict = <<>>
    /\ tree = NoNode
    /\ before = NoNode
    /\ codes = EmptyDict
    /\ node_lst = <<>>
    /\ rebuilt = [general |-> Raise("none"), postorder |-> Raise("none")]
    /\ text = <<>>
    /\ payload = <<>>
    /\ decoded = Raise("none")
    /\ bits = <<>>
    /\ byte = 0
    /\ echo = <<>>

-----------------------------------------------------------------------------
(* Calls *)

\* compress(in_file, out_file) on an in_file holding any text.
Compress ==
    /\ op = "init"
    /\ \E B \in Texts :
          LET r == compress(B)
          IN
          /\ in_file' = File(B)
          /\ IF IsRaised(r)
             THEN /\ raised' = r.raised
                  /\ UNCHANGED <<huf_file, tables>>
             ELSE /\ raised' = "none"
                  /\ huf_file' = File(r.value.result)
                  /\ freq_dict' = r.value.freq
                  /\ tree' = r.value.tree
                  /\ codes' = r.value.codes
    /\ op' = "compress"
    /\ UNCHANGED <<before, orig_file, truncated, readers, coding, codec>>

\* The archive loses its last bytes (a cut transfer, a full disk).
Truncate ==
    /\ op = "compress"
    /\ huf_file.exists
    /\ \E n \in 0 .. (Len(huf_file.data) - 1) :
          huf_file' = File(SubSeq(huf_file.data, 1, n))
    /\ truncated' = TRUE
    /\ op' = "truncate"
    /\ UNCHANGED <<before, raised, in_file, orig_file, tables, readers, coding,
                   codec>>

\* uncompress(in_file, out_file) on the archive.
Uncompress ==
    /\ op \in {"compress", "truncate"}
    /\ huf_file.exists
    /\ LET r == uncompress(huf_file.data)
       IN  IF IsRaised(r)
           THEN /\ raised' = r.raised
                /\ orig_file' = IF r.opened THEN File(<<>>) ELSE orig_file
           ELSE /\ raised' = "none"
                /\ orig_file' = File(r.value)
    /\ op' = "uncompress"
    /\ UNCHANGED <<before, in_file, huf_file, truncated, tables, readers,
                   coding, codec>>

\* huffman_tree on any frequency table, then get_codes on its tree.
HuffmanTree ==
    /\ op = "init"
    /\ \E F \in FreqDicts :
          LET r == huffman_tree(F)
          IN
          /\ freq_dict' = F
          /\ IF IsRaised(r)
             THEN /\ raised' = r.raised
                  /\ UNCHANGED <<tree, codes>>
             ELSE /\ raised' = "none"
                  /\ tree' = r.value
                  /\ codes' = get_codes(r.value)
    /\ op' = "huffman_tree"
    /\ UNCHANGED <<before, files, readers, coding, codec>>

\* huffman_tree of src/untitled2.py on any frequency table, then get_codes
\* of that file on its tree.
HuffmanTree2 ==
    /\ op = "init"
    /\ \E F \in FreqDicts :
          LET r == huffman_tree2(F)
          IN
          /\ freq_dict' = F
          /\ IF IsRaised(r)
             THEN /\ raised' = r.raised
                  /\ UNCHANGED <<tree, codes>>
             ELSE /\ raised' = "none"
                  /\ tree' = r.value
                  /\ codes' = get_codes2(r.value)
    /\ op' = "huffman_tree2"
    /\ UNCHANGED <<before, files, readers, coding, codec>>

\* get_codes on any tree.
GetCodes ==
    /\ op = "init"
    /\ \E t \in AnyTrees \cup FullTrees :
          /\ tree' = t
          /\ codes' = get_codes(t)
    /\ op' = "get_codes"
    /\ UNCHANGED <<before, raised, files, freq_dict, readers, coding, codec>>

\* get_codes of src/untitled2.py on any tree.
GetCodes2 ==
    /\ op = "init"
    /\ \E t \in AnyTrees \cup FullTrees :
          /\ tree' = t
          /\ codes' = get_codes2(t)
    /\ op' = "get_codes2"
    /\ UNCHANGED <<before, raised, files, freq_dict, readers, coding, codec>>

\* number_nodes on any tree.
NumberNodes ==
    /\ op = "init"
    /\ \E t \in AnyTrees \cup FullTrees : tree' = number_nodes(t)
    /\ op' = "number_nodes"
    /\ UNCHANGED <<before, raised, files, freq_dict, codes, readers, coding,
                   codec>>

\* number_nodes of src/untitled2.py on any tree.
NumberNodes2 ==
    /\ op = "init"
    /\ \E t \in AnyTrees \cup FullTrees : tree' = number_nodes2(t)
    /\ op' = "number_nodes2"
    /\ UNCHANGED <<before, raised, files, freq_dict, codes, readers, coding,
                   codec>>

\* number_nodes and tree_to_bytes on any two-children tree, then
\* bytes_to_nodes and the two readers on the bytes.
Rebuild ==
    /\ op = "init"
    /\ \E t \in FullTrees :
          LET numbered == number_nodes(t)
              buf == tree_to_bytes(numbered)
              recs == bytes_to_nodes(buf.value)
          IN  /\ t.symbol = None
              /\ ~IsRaised(buf)
              /\ ~IsRaised(recs)
              /\ tree' = numbered
              /\ node_lst' = recs.value
              /\ rebuilt' =
                   [general |->
                        generate_tree_general(recs.value, numbered.number),
                    postorder |->
                        generate_tree_postorder(recs.value, numbered.number)]
    /\ op' = "rebuild"
    /\ UNCHANGED <<before, raised, files, freq_dict, codes, coding, codec>>

\* generate_compressed on any text over the symbols of a tree, then
\* generate_uncompressed on its bytes with the text's length as size.
Decode ==
    /\ op = "init"
    /\ \E t \in CodeTrees : \E B \in Texts :
          LET d == get_codes(t)
              packed == generate_compressed(B, d)
          IN  /\ Range(B) \subseteq DOMAIN d
              /\ ~IsRaised(packed)
              /\ tree' = t
              /\ codes' = d
              /\ text' = B
              /\ payload' = packed.value
              /\ decoded' = generate_uncompressed(t, packed.value, Len(B))
    /\ op' = "decode"
    /\ UNCHANGED <<before, raised, files, freq_dict, readers, codec>>

\* The number of leaves of a tree.
RECURSIVE LeafCount(_)
LeafCount(t) ==
    IF t = NoNode THEN 0
    ELSE IF t.symbol # None THEN 1
    ELSE LeafCount(t.left) + LeafCount(t.right)

\* improve_tree on any tree and any frequency table of as many entries as
\* the tree has leaves.
ImproveTree ==
    /\ op = "init"
    /\ \E t \in AnyTrees \cup FullTrees : \E F \in FreqDicts :
          LET r == improve_tree(t, F)
          IN
          /\ Len(F) = LeafCount(t)
          /\ before' = t
          /\ freq_dict' = F
          /\ IF IsRaised(r)
             THEN /\ raised' = r.raised
                  /\ tree' = t
             ELSE /\ raised' = "none"
                  /\ tree' = r.value
    /\ op' = "improve_tree"
    /\ UNCHANGED <<files, codes, readers, coding, codec>>

\* bits_to_byte on any string of at most 8 bits, then byte_to_bits.
BitsToByte ==
    /\ op = "init"
    /\ \E n \in 0 .. BitsPerByte : \E s \in [1 .. n -> {"0", "1"}] :
          /\ bits' = s
          /\ byte' = bits_to_byte(s)
          /\ echo' = byte_to_bits(bits_to_byte(s))
    /\ op' = "bits_to_byte"
    /\ UNCHANGED <<before, raised, files, tables, readers, coding>>

\* byte_to_bits on any byte, then bits_to_byte.
ByteToBits ==
    /\ op = "init"
    /\ \E b \in 0 .. (ByteRange - 1) :
          /\ byte' = b
          /\ bits' = byte_to_bits(b)
          /\ echo' = bits_to_byte(byte_to_bits(b))
    /\ op' = "byte_to_bits"
    /\ UNCHANGED <<before, raised, files, tables, readers, coding>>

Next ==
    \/ Compress
    \/ Uncompress
    \/ HuffmanTree
    \/ HuffmanTree2
    \/ GetCodes
    \/ GetCodes2
    \/ NumberNodes
    \/ NumberNodes2
    \/ Rebuild
    \/ Decode
    \/ BitsToByte
    \/ ByteToBits

Spec == Init /\ [][Next]_vars

\* The calls on an archive that may lose bytes between compress and
\* uncompress.
NextDamaged ==
    \/ Compress
    \/ Truncate
    \/ Uncompress

SpecDamaged == Init /\ [][NextDamaged]_vars

\* The calls of improve_tree.
NextImprove == ImproveTree

SpecImprove == Init /\ [][NextImprove]_vars

-----------------------------------------------------------------------------
(* Properties *)

Distinct(data) == Cardinality(Range(data))

\* ceil(n / 8)
BytesFor(n) == (n + BitsPerByte - 1) \div BitsPerByte

\* Whether code a is a prefix of code b (a itself included).
IsPrefix(a, b) == Len(a) <= Len(b) /\ SubSeq(b, 1, Len(a)) = a

\* The sum over the symbols of freq of freq[s] * len(code[s]).
WeightedLength(t, freq) ==
    LET d == get_codes(t)
    IN  SumSeq([i \in DOMAIN freq |-> freq[i][2] * Len(d[freq[i][1]])])

\* The binary prefix-code trees whose leaves are the symbols of S, each
\* once: every internal node has two children. A lone symbol cannot have
\* the empty code, so its trees are a root with one leaf child.
RECURSIVE TreesOver(_)
TreesOver(S) ==
    IF Cardinality(S) = 1 THEN {Leaf(s) : s \in S}
    ELSE UNION {{HuffmanNode(None, l, r) :
                    l \in TreesOver(A), r \in TreesOver(S \ A)} :
                  A \in (SUBSET S) \ {{}, S}}

\* The table of these trees, an entry for each set of symbols.
PrefixCodeTreeTable ==
    {[keys |-> S,
      trees |-> IF Cardinality(S) = 1
                THEN UNION {{HuffmanNode(None, Leaf(s), NoNode),
                             HuffmanNode(None, NoNode, Leaf(s))} : s \in S}
                ELSE TreesOver(S)] :
        S \in (SUBSET Symbols) \ {{}}}

PrefixCodeTrees(S) == (CHOOSE e \in PrefixCodeTreeTable : e.keys = S).trees

\* The weighted path length of a tree whose leaves are the symbols of freq,
\* each once: the code of a leaf is as long as the leaf is deep.
RECURSIVE PathLength(_, _, _)
PathLength(t, freq, depth) ==
    IF t = NoNode THEN 0
    ELSE IF t.symbol # None THEN ItemValue(freq, t.symbol) * depth
    ELSE PathLength(t.left, freq, depth + 1)
         + PathLength(t.right, freq, depth + 1)

\* Equality of trees as shapes with leaf symbols: numbers are not compared.
RECURSIVE SameTree(_, _)
SameTree(a, b) ==
    IF a = NoNode \/ b = NoNode THEN a = b
    ELSE /\ a.symbol = b.symbol
         /\ SameTree(a.left, b.left)
         /\ SameTree(a.right, b.right)

\* The numbers of the internal nodes of t, in postorder.
RECURSIVE PostorderNumbers(_)
PostorderNumbers(t) ==
    IF t = NoNode THEN <<>>
    ELSE PostorderNumbers(t.left) \o PostorderNumbers(t.right) \o
         (IF t.symbol = None THEN <<t.number>> ELSE <<>>)

\* Every leaf of t has no number, and every internal node of t has a number
\* larger than those of the internal nodes below it.
RECURSIVE NumberedUpwards(_)
NumberedUpwards(t) ==
    IF t = NoNode THEN TRUE
    ELSE /\ NumberedUpwards(t.left)
         /\ NumberedUpwards(t.right)
         /\ IF t.symbol # None THEN t.number = None
            ELSE \A n \in Range(PostorderNumbers(t.left)) \cup
                          Range(PostorderNumbers(t.right)) : n < t.number

\* The number of internal nodes of t.
RECURSIVE InternalCount(_)
InternalCount(t) ==
    IF t = NoNode THEN 0
    ELSE InternalCount(t.left) + InternalCount(t.right) +
         (IF t.symbol = None THEN 1 ELSE 0)

\* The number of code bits of a text.
RECURSIVE TotalBits(_, _)
TotalBits(data, d) ==
    IF data = <<>> THEN 0 ELSE Len(d[Head(data)]) + TotalBits(Tail(data), d)

\* An archive that lost no byte decompresses to the text it was made from.
RoundTripWhenCompressed ==
    (op = "uncompress" /\ ~truncated) =>
        (raised = "none" /\ orig_file = in_file)

\* C1: for every byte sequence B, the empty one included, compress on B and
\* then uncompress on the archive yield exactly B.
C1_RoundTrip ==
    /\ op = "compress" => (raised = "none" /\ huf_file.exists)
    /\ op = "uncompress" => (raised = "none" /\ orig_file = in_file)

\* C2: for every non-empty input of n copies of one byte value, compress
\* completes with an archive of 1 + 4 + 4 + ceil(n / 8) bytes, and uncompress
\* of it returns the same n bytes.
C2_SingleByteInput ==
    (in_file.exists /\ Distinct(in_file.data) = 1) =>
        /\ op = "compress" =>
              /\ raised = "none"
              /\ huf_file.exists
              /\ Len(huf_file.data) = 1 + 4 + 4 + BytesFor(Len(in_file.data))
        /\ op = "uncompress" => (raised = "none" /\ orig_file = in_file)

\* C3: for every non-empty frequency table, huffman_tree returns a tree, and
\* its weighted path length is at most that of every binary prefix-code tree
\* whose leaves are exactly the table's symbols, whichever way ties between
\* equal weights are ordered.
C3_MinimalWeightedLength ==
    op = "huffman_tree" =>
        /\ raised = "none"
        /\ LET length == WeightedLength(tree, freq_dict)
           IN  \A alt \in PrefixCodeTrees(KeySet(freq_dict)) :
                  length <= PathLength(alt, freq_dict, 0)

\* A table of four symbols whose tree has a code of three bits, and for which
\* some other tree is strictly worse.
C3_Witness ==
    /\ op = "huffman_tree"
    /\ Len(freq_dict) = 4
    /\ \E s \in DOMAIN codes : Len(codes[s]) = 3
    /\ \E alt \in PrefixCodeTrees(KeySet(freq_dict)) :
          WeightedLength(tree, freq_dict) < PathLength(alt, freq_dict, 0)

\* C4: for every non-empty frequency table F, get_codes(huffman_tree(F)) maps
\* exactly the symbols of F to non-empty bit strings, and no code is a prefix
\* of the code of another symbol.
C4_PrefixFreeCodes ==
    op = "huffman_tree" =>
        /\ raised = "none"
        /\ DOMAIN codes = KeySet(freq_dict)
        /\ \A s \in DOMAIN codes :
              /\ Len(codes[s]) >= 1
              /\ Range(codes[s]) \subseteq {"0", "1"}
        /\ \A s, t \in DOMAIN codes : s # t => ~IsPrefix(codes[s], codes[t])

\* A table whose codes have different lengths.
C4_Witness ==
    /\ op = "huffman_tree"
    /\ \E s, t \in DOMAIN codes : Len(codes[s]) = 1 /\ Len(codes[t]) = 3

\* C5: for every tree t whose internal nodes all have two children, numbered
\* by number_nodes, with recs = bytes_to_nodes(tree_to_bytes(t)) and
\* r = t.number: generate_tree_general(recs, r) and
\* generate_tree_postorder(recs, r) both return a tree of the shape and leaf
\* symbols of t, and so the same tree.
C5_ReadersRebuildTree ==
    op = "rebuild" =>
        /\ ~IsRaised(rebuilt.general)
        /\ ~IsRaised(rebuilt.postorder)
        /\ SameTree(rebuilt.general.value, tree)
        /\ SameTree(rebuilt.postorder.value, tree)
        /\ rebuilt.general = rebuilt.postorder

\* A tree whose root has two internal children, the left one with an internal
\* child of its own or the right one.
C5_Witness ==
    /\ op = "rebuild"
    /\ Len(node_lst) = 3
    /\ tree.left.symbol = None
    /\ tree.right.symbol = None

\* C6: for every tree of at least two leaves with distinct symbols and every
\* text over them, generate_uncompressed on the bytes of generate_compressed,
\* with size = len(text), returns exactly the text: len(text) symbols, and
\* none for the "0" bits that pad the last byte.
C6_DecodeStopsAtSize ==
    op = "decode" =>
        /\ ~IsRaised(decoded)
        /\ Len(decoded.value) = Len(text)
        /\ decoded.value = text

\* A text whose codes fill more than one byte and leave padding, in a tree
\* where a run of padding bits reads as a symbol.
C6_Witness ==
    /\ op = "decode"
    /\ Len(payload) = 2
    /\ TotalBits(text, codes) % BitsPerByte # 0
    /\ tree.left.symbol # None

\* C7: uncompress on an archive that holds fewer bytes than it declares ends
\* in a signalled error, and never returns a shorter output as a success.
C7_DamagedArchiveRaises ==
    (op = "uncompress" /\ truncated) => raised # "none"

\* C8: number_nodes, in src/untitled.py and in src/untitled2.py, numbers the
\* internal nodes in postorder: the numbers are 0 .. count - 1 in the order
\* left subtree, right subtree, node; every internal node's number is larger
\* than those below it; an internal root gets count - 1; leaves get no
\* number.
C8_PostorderNumbers ==
    op \in {"number_nodes", "number_nodes2"} =>
        LET count == InternalCount(tree)
        IN  /\ PostorderNumbers(tree) = [i \in 1 .. count |-> i - 1]
            /\ NumberedUpwards(tree)
            /\ tree.symbol = None => tree.number = count - 1
            /\ tree.symbol # None => count = 0

\* A root with two internal children.
C8_Witness ==
    /\ op = "number_nodes"
    /\ tree.symbol = None
    /\ tree.left # NoNode /\ tree.left.symbol = None
    /\ tree.right # NoNode /\ tree.right.symbol = None
    /\ tree.number = 2

\* C9: for every input of at least two distinct byte values, compress writes
\* one byte N = root.number + 1 = the number of internal nodes = the number
\* of distinct symbols - 1 (in 1 .. 255), then 4 * N record bytes, then the
\* input length as 4 bytes little-endian, then ceil(code bits / 8) bytes.
C9_ArchiveLayout ==
    (op = "compress" /\ Distinct(in_file.data) >= 2) =>
        /\ raised = "none"
        /\ huf_file.exists
        /\ LET data == huf_file.data
               N == data[1]
               n == Len(in_file.data)
           IN  /\ N = tree.number + 1
               /\ N = InternalCount(tree)
               /\ N = Distinct(in_file.data) - 1
               /\ N >= 1 /\ N < ByteRange
               /\ Len(data) = 1 + 4 * N + 4
                               + BytesFor(TotalBits(in_file.data, codes))
               /\ \A k \in 1 .. 4 :
                     data[1 + 4 * N + k] =
                         (n \div Pow2(BitsPerByte * (k - 1))) % ByteRange
               /\ n = data[4 * N + 2] + ByteRange * data[4 * N + 3]
                      + ByteRange * ByteRange * data[4 * N + 4]
                      + ByteRange * ByteRange * ByteRange * data[4 * N + 5]

\* An input of four distinct bytes whose codes need two payload bytes.
C9_Witness ==
    /\ op = "compress"
    /\ raised = "none"
    /\ Distinct(in_file.data) = 4
    /\ TotalBits(in_file.data, codes) > BitsPerByte
    /\ Len(huf_file.data) = 1 + 12 + 4 + 2

\* C10: for every string s of at most 8 bits, byte_to_bits(bits_to_byte(s))
\* is s padded on the right with "0" to 8 characters; for every byte b,
\* bits_to_byte(byte_to_bits(b)) is b.
C10_BitCodecRoundTrip ==
    /\ op = "bits_to_byte" =>
          echo = [k \in 1 .. BitsPerByte |->
                     IF k <= Len(bits) THEN bits[k] ELSE "0"]
    /\ op = "byte_to_bits" =>
          /\ echo = byte
          /\ Len(bits) = BitsPerByte

\* The string "101", which is the byte 0b10100000.
C10_Witness ==
    /\ op = "bits_to_byte"
    /\ bits = <<"1", "0", "1">>
    /\ byte = 160
    /\ echo = <<"1", "0", "1", "0", "0", "0", "0", "0">>

\* C11: for a tree whose root is a leaf carrying symbol s, get_codes (of
\* src/untitled.py and of src/untitled2.py) returns {s: "1"}; and for the
\* tree huffman_tree builds from a one-entry frequency table, the symbol's
\* code is exactly one bit long.
C11_SingleSymbolCode ==
    /\ (op \in {"get_codes", "get_codes2"} /\ tree.symbol # None) =>
          codes = DictPut(EmptyDict, tree.symbol, <<"1">>)
    /\ (op \in {"huffman_tree", "huffman_tree2"} /\ Len(freq_dict) = 1) =>
          /\ raised = "none"
          /\ DOMAIN codes = {freq_dict[1][1]}
          /\ Len(codes[freq_dict[1][1]]) = 1

\* The leaves of t from left to right, each as <<symbol, depth>>.
RECURSIVE Leaves(_, _)
Leaves(t, depth) ==
    IF t = NoNode THEN <<>>
    ELSE IF t.symbol # None THEN <<<<t.symbol, depth>>>>
    ELSE Leaves(t.left, depth + 1) \o Leaves(t.right, depth + 1)

\* Equality of trees as shapes: neither symbols nor numbers are compared.
RECURSIVE SameShape(_, _)
SameShape(a, b) ==
    IF a = NoNode \/ b = NoNode THEN a = b
    ELSE /\ (a.symbol = None) = (b.symbol = None)
         /\ SameShape(a.left, b.left)
         /\ SameShape(a.right, b.right)

\* C12: improve_tree on a tree of as many leaves as freq_dict has entries
\* keeps the tree's shape and leaves the leaves with exactly the symbols of
\* freq_dict, each once, a leaf nearer the root never with a smaller
\* frequency than a deeper leaf.
C12_ImproveTree ==
    op = "improve_tree" =>
        LET leaves == Leaves(tree, 0)
        IN  /\ raised = "none"
            /\ SameShape(tree, before)
            /\ Len(leaves) = Len(freq_dict)
            /\ {leaves[i][1] : i \in DOMAIN leaves} = KeySet(freq_dict)
            /\ \A i, j \in DOMAIN leaves :
                  leaves[i][2] < leaves[j][2] =>
                      ItemValue(freq_dict, leaves[i][1]) >=
                          ItemValue(freq_dict, leaves[j][1])

=============================================================================
